---- MODULE Spec2Model ----
(***************************************************************************)
(* Network stream detector of the Video Summarizer extension               *)
(* (background/streamDetector.ts): the per-tab list of detected streams,   *)
(* the webRequest response handler that classifies a response and inserts  *)
(* it, and the tab listeners that reset or drop a tab's list.              *)
(*                                                                         *)
(* Strings of the program (URLs, header names and values, MIME types) are  *)
(* sequences of one-character strings, so that includes(), split(),        *)
(* toLowerCase(), parseInt() and the regular expressions are computed on   *)
(* characters as the code computes them.                                   *)
(***************************************************************************)
EXTENDS Integers, Sequences, FiniteSets, TLC

VARIABLES
    streams,       \* StreamDetector.streams: Map<number, DetectedStream[]>
    notified,      \* runtime messages sent by the handler that ran last
    clock,         \* Date.now(): one tick per observed response
    observations,  \* Spec: the response observed last; SpecFunnel: those to observe
    session,       \* history: per tab, where it is in its life cycle (see History)
    document,      \* the page shown in the active tab (see the DOM scanner)
    videos,        \* VideoDetectorContentScript.detectedVideos
    display,       \* SidePanel: the detectedVideos state
    items,         \* App: what getVideoItems returns for the state after a fetch
    videoInfoCache, \* background: Map<number, VideoInfo>
    badge          \* the updateBadge call of the handler that ran last

page == <<document, videos, display, items, videoInfoCache>>

vars == <<streams, notified, clock, observations, session, document, videos, display,
          items, videoInfoCache, badge>>

----------------------------------------------------------------------------
(* Optional values: undefined is the empty tuple, a value v is <<v>>.      *)

Undefined == <<>>
Some(v) == <<v>>
IsDefined(o) == o # <<>>
Range(s) == {s[i] : i \in 1..Len(s)}

----------------------------------------------------------------------------
(* String primitives.                                                      *)

UpperLetters == <<"A","B","C","D","E","F","G","H","I","J","K","L","M","N","O","P","Q","R","S","T","U","V","W","X","Y","Z">>
LowerLetters == <<"a","b","c","d","e","f","g","h","i","j","k","l","m","n","o","p","q","r","s","t","u","v","w","x","y","z">>
Digits == <<"0","1","2","3","4","5","6","7","8","9">>

\* the lower-case letter of each upper-case letter
LowerOf == [i \in 1..26 |-> LowerLetters[i]]
UpperIndex ==
    [A |-> 1, B |-> 2, C |-> 3, D |-> 4, E |-> 5, F |-> 6, G |-> 7, H |-> 8, I |-> 9,
     J |-> 10, K |-> 11, L |-> 12, M |-> 13, N |-> 14, O |-> 15, P |-> 16, Q |-> 17,
     R |-> 18, S |-> 19, T |-> 20, U |-> 21, V |-> 22, W |-> 23, X |-> 24, Y |-> 25,
     Z |-> 26]

\* one character of String.prototype.toLowerCase
LowerChar(c) == IF c \in DOMAIN UpperIndex THEN LowerOf[UpperIndex[c]] ELSE c

\* String.prototype.toLowerCase
ToLowerCase(s) == [i \in 1..Len(s) |-> LowerChar(s[i])]

\* s has sub at index i (1-based)
HasAt(s, sub, i) ==
    /\ i >= 1
    /\ i + Len(sub) - 1 <= Len(s)
    /\ SubSeq(s, i, i + Len(sub) - 1) = sub

\* String.prototype.includes
Includes(s, sub) == \E i \in 1..(Len(s) - Len(sub) + 1) : HasAt(s, sub, i)

\* url.split('?')[0]: the text before the first '?', the whole text without one
SplitFirst(s, sep) ==
    IF \E i \in 1..Len(s) : s[i] = sep
    THEN SubSeq(s, 1, (CHOOSE i \in 1..Len(s) :
                          /\ s[i] = sep
                          /\ \A j \in 1..(i - 1) : s[j] # sep) - 1)
    ELSE s

\* value of a decimal digit character
DigitValue(c) == (CHOOSE i \in 1..10 : Digits[i] = c) - 1
IsDigit(c) == \E i \in 1..10 : Digits[i] = c

\* length of the longest prefix of s made of digits
RECURSIVE DigitPrefixLen(_)
DigitPrefixLen(s) ==
    IF s = <<>> \/ ~IsDigit(Head(s)) THEN 0 ELSE 1 + DigitPrefixLen(Tail(s))

\* value of a string of digits
RECURSIVE DigitsValue(_)
DigitsValue(s) ==
    IF s = <<>> THEN 0
    ELSE 10 * DigitsValue(SubSeq(s, 1, Len(s) - 1)) + DigitValue(s[Len(s)])

\* the number NaN, told from <<n>> by its length
NaN == <<"N","a","N">>

\* parseInt(s, 10) on a text without leading blanks: an optional sign and the
\* leading digits, NaN without any digit
ParseInt(s) ==
    LET signed == s # <<>> /\ Head(s) \in {"-", "+"}
        body == IF signed THEN Tail(s) ELSE s
        n == DigitPrefixLen(body)
        v == DigitsValue(SubSeq(body, 1, n))
    IN  IF n = 0 THEN NaN
        ELSE IF signed /\ Head(s) = "-" THEN Some(0 - v)
        ELSE Some(v)

\* truthiness of number | undefined: undefined, NaN and 0 are falsy
TruthyNumber(o) == Len(o) = 1 /\ o[1] # 0

----------------------------------------------------------------------------
(* Regular expressions of the detector, all with the i flag and used with  *)
(* RegExp.test.  Three shapes occur:                                       *)
(*   Lit(a)        /a/i            a occurs                                *)
(*   Ext(a, ends)  /a(?:\?|$|#)/i  a occurs, followed by the end of the    *)
(*                                 text or by one of the characters ends   *)
(*   Then(a, b)    /a.*b/i         a occurs and b occurs after it          *)
(* An optional group at the end of a pattern does not change test().       *)

Lit(a) == [form |-> "lit", a |-> a]
Ext(a, ends) == [form |-> "ext", a |-> a, ends |-> ends]
Then(a, b) == [form |-> "then", a |-> a, b |-> b]

\* re.test(str), given s = str in lower case
TestLower(re, s) ==
        CASE re.form = "lit" -> Includes(s, re.a)
          [] re.form = "ext" ->
                \E i \in 1..Len(s) :
                    /\ HasAt(s, re.a, i)
                    /\ \/ i + Len(re.a) - 1 = Len(s)
                       \/ s[i + Len(re.a)] \in re.ends
          [] re.form = "then" ->
                \E i \in 1..Len(s) :
                    /\ HasAt(s, re.a, i)
                    /\ Includes(SubSeq(s, i + Len(re.a), Len(s)), re.b)

Test(re, str) == TestLower(re, ToLowerCase(str))

QH == {"?", "#"}
Q == {"?"}

VIDEO_MIME_TYPES == <<
    <<"v","i","d","e","o","/","m","p","4">>,
    <<"v","i","d","e","o","/","w","e","b","m">>,
    <<"v","i","d","e","o","/","o","g","g">>,
    <<"v","i","d","e","o","/","x","-","f","l","v">>,
    <<"v","i","d","e","o","/","q","u","i","c","k","t","i","m","e">>,
    <<"v","i","d","e","o","/","x","-","m","s","v","i","d","e","o">>,
    <<"v","i","d","e","o","/","x","-","m","a","t","r","o","s","k","a">>,
    <<"v","i","d","e","o","/","3","g","p","p">>,
    <<"v","i","d","e","o","/","m","p","e","g">>,
    <<"v","i","d","e","o","/","m","p","2","t">>,
    <<"a","p","p","l","i","c","a","t","i","o","n","/","x","-","m","p","e","g","U","R","L">>,
    <<"a","p","p","l","i","c","a","t","i","o","n","/","v","n","d",".","a","p","p","l","e",".","m","p","e","g","u","r","l">>,
    <<"a","p","p","l","i","c","a","t","i","o","n","/","d","a","s","h","+","x","m","l">>,
    <<"a","p","p","l","i","c","a","t","i","o","n","/","o","c","t","e","t","-","s","t","r","e","a","m">> >>

VIDEO_URL_PATTERNS == <<
    Ext(<<".","m","p","4">>, QH),
    Ext(<<".","w","e","b","m">>, QH),
    Ext(<<".","m","3","u","8">>, QH),
    Ext(<<".","m","p","d">>, QH),
    Ext(<<".","f","l","v">>, QH),
    Ext(<<".","t","s">>, QH),
    Ext(<<".","m","4","s">>, QH),
    Ext(<<".","m","4","v">>, QH),
    Ext(<<".","m","o","v">>, QH),
    Ext(<<".","a","v","i">>, QH),
    Ext(<<".","m","k","v">>, QH),
    Ext(<<".","3","g","p">>, QH),
    Lit(<<"/","m","a","n","i","f","e","s","t">>),
    Lit(<<"/","p","l","a","y","l","i","s","t",".","m","3","u","8">>),
    Lit(<<"/","m","a","s","t","e","r",".","m","3","u","8">>),
    Lit(<<"/","i","n","d","e","x",".","m","3","u","8">>),
    Lit(<<"v","i","d","e","o","p","l","a","y","b","a","c","k">>),
    Lit(<<"g","o","o","g","l","e","v","i","d","e","o",".","c","o","m">>),
    Then(<<"y","t","i","m","g",".","c","o","m">>, <<".","w","e","b","m">>),
    Then(<<".","a","k","a","m","a","i","h","d",".","n","e","t">>, <<"v","i","d","e","o">>),
    Then(<<"c","l","o","u","d","f","r","o","n","t">>, <<"v","i","d","e","o">>),
    Then(<<".","f","b","c","d","n",".","n","e","t">>, <<"v","i","d","e","o">>),
    Then(<<"t","w","i","m","g",".","c","o","m">>, <<"v","i","d","e","o">>),
    Then(<<".","t","i","k","t","o","k","c","d","n",".","c","o","m">>, <<"v","i","d","e","o">>),
    Then(<<".","i","n","s","t","a","g","r","a","m",".","c","o","m">>, <<"v","i","d","e","o">>),
    Lit(<<"v","i","m","e","o","c","d","n",".","c","o","m">>),
    Lit(<<"p","l","a","y","e","r",".","v","i","m","e","o",".","c","o","m">>),
    Then(<<"d","a","i","l","y","m","o","t","i","o","n",".","c","o","m">>, <<"v","i","d","e","o">>),
    Lit(<<".","b","r","i","g","h","t","c","o","v","e">>),
    Lit(<<".","j","w","p","l","a","t","f","o","r","m">>),
    Lit(<<".","j","w","p","c","d","n">>),
    Lit(<<"b","i","t","m","o","v","i","n">>),
    Lit(<<".","h","l","s",".">>),
    Lit(<<".","d","a","s","h",".">>),
    Lit(<<"s","t","r","e","a","m","i","n","g">>),
    Then(<<"m","e","d","i","a">>, <<".","m","p","4">>),
    Then(<<"v","i","d","e","o">>, <<".","m","p","4">>),
    Then(<<"c","d","n">>, <<"v","i","d","e","o">>) >>

EXCLUDE_PATTERNS == <<
    Lit(<<"g","o","o","g","l","e","a","d","s">>),
    Lit(<<"d","o","u","b","l","e","c","l","i","c","k">>),
    Lit(<<"g","o","o","g","l","e","s","y","n","d","i","c","a","t","i","o","n">>),
    Lit(<<"g","o","o","g","l","e","a","d","s","e","r","v","i","c","e","s">>),
    Lit(<<"a","n","a","l","y","t","i","c","s">>),
    Lit(<<"t","r","a","c","k","i","n","g">>),
    Lit(<<"p","i","x","e","l">>),
    Lit(<<"b","e","a","c","o","n">>),
    Lit(<<"t","e","l","e","m","e","t","r","y">>),
    Ext(<<".","g","i","f">>, Q),
    Ext(<<".","p","n","g">>, Q),
    Ext(<<".","j","p","g">>, Q),
    Ext(<<".","j","p","e","g">>, Q),
    Ext(<<".","s","v","g">>, Q),
    Ext(<<".","i","c","o">>, Q),
    Lit(<<".","w","o","f","f">>),
    Lit(<<".","t","t","f">>),
    Ext(<<".","c","s","s">>, Q),
    Ext(<<".","j","s">>, Q),
    Lit(<<"f","a","v","i","c","o","n">>),
    Lit(<<"t","h","u","m","b","n","a","i","l">>),
    Lit(<<"p","r","e","v","i","e","w">>),
    Lit(<<"p","o","s","t","e","r">>) >>

\* IsExcluded with the patterns lacking the i flag
IsExcluded_CaseSensitive(url) ==
    \E i \in 1..Len(EXCLUDE_PATTERNS) : TestLower(EXCLUDE_PATTERNS[i], url)

\* EXCLUDE_PATTERNS.some(pattern => pattern.test(url))
IsExcluded(url) ==
    LET s == ToLowerCase(url)
    IN  \E i \in 1..Len(EXCLUDE_PATTERNS) : TestLower(EXCLUDE_PATTERNS[i], s)

\* VIDEO_MIME_TYPES.some(mime => contentType.includes(mime.toLowerCase()))
IsVideoMime(contentType) ==
    \E i \in 1..Len(VIDEO_MIME_TYPES) :
        Includes(contentType, ToLowerCase(VIDEO_MIME_TYPES[i]))

\* VIDEO_URL_PATTERNS.some(pattern => pattern.test(url))
IsVideoUrl(url) ==
    LET s == ToLowerCase(url)
    IN  \E i \in 1..Len(VIDEO_URL_PATTERNS) : TestLower(VIDEO_URL_PATTERNS[i], s)

\* IsMediaType that holds for every resource type
IsMediaType_Any(type) == TRUE

\* type === 'media' || type === 'xmlhttprequest' || type === 'other'
IsMediaType(type) == type \in {"media", "xmlhttprequest", "other"}

OctetKeywords == <<<<"v","i","d","e","o">>, <<"m","e","d","i","a">>, <<"s","t","r","e","a","m">>, <<"p","l","a","y">>, <<"w","a","t","c","h">>>>
VideoKeywords == <<<<"v","i","d","e","o">>, <<"m","e","d","i","a">>, <<"s","t","r","e","a","m">>, <<"p","l","a","y">>, <<"w","a","t","c","h">>, <<"c","l","i","p">>, <<"m","o","v","i","e">>>>

LooksLikeVideo(url, contentType) ==
    LET urlLower == ToLowerCase(url)
    IN  IF Includes(contentType, <<"o","c","t","e","t","-","s","t","r","e","a","m">>)
        THEN \E i \in 1..Len(OctetKeywords) : Includes(urlLower, OctetKeywords[i])
        ELSE Cardinality({i \in 1..Len(VideoKeywords) :
                             Includes(urlLower, VideoKeywords[i])}) >= 1

DetectStreamType(url, contentType) ==
    LET urlLower == ToLowerCase(url)
        ctLower == ToLowerCase(contentType)
    IN  IF \/ Includes(urlLower, <<".","m","3","u","8">>)
           \/ Includes(ctLower, <<"m","p","e","g","u","r","l">>)
           \/ Includes(ctLower, <<"x","-","m","p","e","g","u","r","l">>)
        THEN "hls"
        ELSE IF Includes(urlLower, <<".","m","p","d">>) \/ Includes(ctLower, <<"d","a","s","h">>)
        THEN "dash"
        ELSE IF \/ Includes(urlLower, <<".","m","p","4">>)
                \/ Includes(urlLower, <<".","m","4","v">>)
                \/ Includes(ctLower, <<"m","p","4">>)
        THEN "mp4"
        ELSE IF Includes(urlLower, <<".","w","e","b","m">>) \/ Includes(ctLower, <<"w","e","b","m">>)
        THEN "webm"
        ELSE IF Includes(urlLower, <<".","f","l","v">>) \/ Includes(ctLower, <<"f","l","v">>)
        THEN "flv"
        ELSE IF \/ Includes(urlLower, <<".","t","s">>)
                \/ Includes(urlLower, <<".","m","4","s">>)
                \/ Includes(ctLower, <<"m","p","2","t">>)
        THEN "hls"
        ELSE "unknown"

----------------------------------------------------------------------------
(* detectQuality: the patterns are tried in the order of the array, each   *)
(* with String.prototype.match (leftmost match, greedy quantifiers), and   *)
(* the first one that matches decides; match[1] is its first group.        *)

CharAt(s, i) == IF i >= 1 /\ i <= Len(s) THEN s[i] ELSE ""
LowerAt(s, i) == LowerChar(CharAt(s, i))
AllDigits(s, i, n) == i + n - 1 <= Len(s) /\ \A k \in i..(i + n - 1) : IsDigit(s[k])
\* \w
IsWordChar(c) ==
    \/ IsDigit(c)
    \/ c = "_"
    \/ \E i \in 1..26 : UpperLetters[i] = c \/ LowerLetters[i] = c

\* \d
DigitChars == Range(Digits)
\* \w as a set
WordChars ==
    {c \in Range(Digits) \cup Range(UpperLetters) \cup Range(LowerLetters) \cup {"_"} :
        IsWordChar(c)}

\* length of the longest run of characters of the class chars that starts at i
RunLen(s, i, chars) ==
    IF i > Len(s) THEN 0
    ELSE LET N == {n \in 0..(Len(s) - i + 1) : \A k \in i..(i + n - 1) : s[k] \in chars}
         IN  CHOOSE n \in N : \A m \in N : m <= n

\* s has the text lit at i, letters compared without case
HasAtI(s, lit, i) == \A k \in 1..Len(lit) : LowerAt(s, i + k - 1) = lit[k]

\* /(\d{3,4})p/i at i: four digits are tried before three
MatchDigitsP(s, i) ==
    IF AllDigits(s, i, 4) /\ LowerAt(s, i + 4) = "p" THEN Some(SubSeq(s, i, i + 3))
    ELSE IF AllDigits(s, i, 3) /\ LowerAt(s, i + 3) = "p" THEN Some(SubSeq(s, i, i + 2))
    ELSE Undefined

\* /(\d{3,4})x\d{3,4}/i at i: the group is the number before the x
MatchWidthXHeight(s, i) ==
    IF AllDigits(s, i, 4) /\ LowerAt(s, i + 4) = "x" /\ AllDigits(s, i + 5, 3)
    THEN Some(SubSeq(s, i, i + 3))
    ELSE IF AllDigits(s, i, 3) /\ LowerAt(s, i + 3) = "x" /\ AllDigits(s, i + 4, 3)
    THEN Some(SubSeq(s, i, i + 2))
    ELSE Undefined

\* /\d{3,4}x(\d{3,4})/i at i: the group is the number after the x, up to four digits
MatchHeightAfterX(s, i) ==
    LET x == IF AllDigits(s, i, 4) /\ LowerAt(s, i + 4) = "x" /\ AllDigits(s, i + 5, 3)
             THEN i + 4
             ELSE IF AllDigits(s, i, 3) /\ LowerAt(s, i + 3) = "x" /\ AllDigits(s, i + 4, 3)
             THEN i + 3
             ELSE 0
    IN  IF x = 0 THEN Undefined
        ELSE IF AllDigits(s, x + 1, 4) THEN Some(SubSeq(s, x + 1, x + 4))
        ELSE Some(SubSeq(s, x + 1, x + 3))

\* /quality[=_-]?(\w+)/i at i: the separator is taken when a word follows it,
\* otherwise the word starts right after "quality"
MatchQualityParam(s, i) ==
    LET j == i + 7
        n1 == RunLen(s, j + 1, WordChars)
        n0 == RunLen(s, j, WordChars)
    IN  IF ~HasAtI(s, <<"q","u","a","l","i","t","y">>, i) THEN Undefined
        ELSE IF CharAt(s, j) \in {"=", "_", "-"} /\ n1 >= 1
        THEN Some(SubSeq(s, j + 1, j + n1))
        ELSE IF n0 >= 1 THEN Some(SubSeq(s, j, j + n0 - 1))
        ELSE Undefined

\* /name[=_](\d+)/i at i, for name itag and res
MatchNumberParam(s, name, i) ==
    LET j == i + Len(name)
        n == RunLen(s, j + 1, DigitChars)
    IN  IF HasAtI(s, name, i) /\ CharAt(s, j) \in {"=", "_"} /\ n >= 1
        THEN Some(SubSeq(s, j + 1, j + n))
        ELSE Undefined
MatchItag(s, i) == MatchNumberParam(s, <<"i","t","a","g">>, i)
MatchRes(s, i) == MatchNumberParam(s, <<"r","e","s">>, i)

QualityWords == <<<<"h","d">>, <<"s","d">>, <<"h","q">>, <<"l","q">>, <<"4","k">>, <<"2","k">>,
                  <<"1","0","8","0">>, <<"7","2","0">>, <<"4","8","0">>, <<"3","6","0">>, <<"2","4","0">>, <<"1","4","4">>>>

\* /[_-](hd|sd|hq|lq|4k|2k|1080|720|480|360|240|144)[_-]/i at i
MatchQualityWord(s, i) ==
    LET K == {k \in 1..Len(QualityWords) :
                 /\ HasAtI(s, QualityWords[k], i + 1)
                 /\ CharAt(s, i + 1 + Len(QualityWords[k])) \in {"_", "-"}}
        k == CHOOSE k \in K : \A m \in K : k <= m
    IN  IF CharAt(s, i) \in {"_", "-"} /\ K # {}
        THEN Some(SubSeq(s, i + 1, i + Len(QualityWords[k])))
        ELSE Undefined

\* url.match(pattern), given the match of the pattern at each index of the url:
\* the match at the leftmost index that has one
FirstMatch(matchAt) ==
    LET I == {i \in DOMAIN matchAt : IsDefined(matchAt[i])}
    IN  IF I = {} THEN Undefined
        ELSE matchAt[CHOOSE i \in I : \A j \in I : i <= j]

\* the decimal text of a natural number
RECURSIVE NumberToString(_)
NumberToString(n) ==
    IF n < 10 THEN <<Digits[n + 1]>>
    ELSE NumberToString(n \div 10) \o <<Digits[(n % 10) + 1]>>

\* itagMap
ItagKeys == <<18, 22, 37, 38, 82, 83, 84, 85, 133, 134, 135, 136, 137,
              138, 160, 242, 243, 244, 247, 248, 271, 313>>
ItagLabels == <<<<"3","6","0","p">>, <<"7","2","0","p">>, <<"1","0","8","0","p">>, <<"3","0","7","2","p">>,
                <<"3","6","0","p"," ","3","D">>, <<"4","8","0","p"," ","3","D">>, <<"7","2","0","p"," ","3","D">>, <<"1","0","8","0","p"," ","3","D">>,
                <<"2","4","0","p">>, <<"3","6","0","p">>, <<"4","8","0","p">>, <<"7","2","0","p">>, <<"1","0","8","0","p">>,
                <<"2","1","6","0","p">>, <<"1","4","4","p">>, <<"2","4","0","p">>, <<"3","6","0","p">>, <<"4","8","0","p">>,
                <<"7","2","0","p">>, <<"1","0","8","0","p">>, <<"1","4","4","0","p">>, <<"2","1","6","0","p">>>>

\* QualityOfMatch without the itag table
QualityOfMatch_NoTable(val) ==
    IF val # <<>> /\ AllDigits(val, 1, Len(val)) /\ DigitsValue(val) >= 1000
    THEN val \o <<"p">>
    ELSE val

\* what the loop body returns for match[1] = val
QualityOfMatch(val) ==
    IF val # <<>> /\ AllDigits(val, 1, Len(val))
    THEN LET num == DigitsValue(val)
         IN  IF num >= 1000 THEN NumberToString(num) \o <<"p">>
             ELSE IF \E k \in 1..Len(ItagKeys) : ItagKeys[k] = num
             THEN ItagLabels[CHOOSE k \in 1..Len(ItagKeys) : ItagKeys[k] = num]
             ELSE val
    ELSE val

DetectQuality(url) ==
    LET m1 == FirstMatch([i \in 1..Len(url) |-> MatchDigitsP(url, i)])
        m2 == FirstMatch([i \in 1..Len(url) |-> MatchWidthXHeight(url, i)])
        m3 == FirstMatch([i \in 1..Len(url) |-> MatchHeightAfterX(url, i)])
        m4 == FirstMatch([i \in 1..Len(url) |-> MatchQualityParam(url, i)])
        m5 == FirstMatch([i \in 1..Len(url) |-> MatchItag(url, i)])
        m6 == FirstMatch([i \in 1..Len(url) |-> MatchRes(url, i)])
        m7 == FirstMatch([i \in 1..Len(url) |-> MatchQualityWord(url, i)])
    IN  IF IsDefined(m1) THEN Some(QualityOfMatch(m1[1]))
        ELSE IF IsDefined(m2) THEN Some(QualityOfMatch(m2[1]))
        ELSE IF IsDefined(m3) THEN Some(QualityOfMatch(m3[1]))
        ELSE IF IsDefined(m4) THEN Some(QualityOfMatch(m4[1]))
        ELSE IF IsDefined(m5) THEN Some(QualityOfMatch(m5[1]))
        ELSE IF IsDefined(m6) THEN Some(QualityOfMatch(m6[1]))
        ELSE IF IsDefined(m7) THEN Some(QualityOfMatch(m7[1]))
        ELSE Undefined

----------------------------------------------------------------------------
(* The stream map and the handlers.                                        *)

\* Map.prototype.set and Map.prototype.delete on a function
MapSet(m, k, v) == [x \in (DOMAIN m) \cup {k} |-> IF x = k THEN v ELSE m[x]]
MapDelete(m, k) == [x \in (DOMAIN m) \ {k} |-> m[x]]

\* this.streams.get(tabId) || []
GetOrEmpty(m, tabId) == IF tabId \in DOMAIN m THEN m[tabId] ELSE <<>>

\* getStreams(tabId)
getStreams(tabId) == GetOrEmpty(streams, tabId)

\* responseHeaders?.find(h => h.name.toLowerCase() === name)?.value
HeaderValue(responseHeaders, name) ==
    IF ~IsDefined(responseHeaders) THEN Undefined
    ELSE LET hs == responseHeaders[1]
             I == {i \in 1..Len(hs) : ToLowerCase(hs[i].name) = name}
         IN  IF I = {} THEN Undefined
             ELSE hs[CHOOSE i \in I : \A j \in I : i <= j].value

\* the contentType of handleResponse: the header value in lower case, '' without one
ContentTypeOf(details) ==
    LET v == HeaderValue(details.responseHeaders, <<"c","o","n","t","e","n","t","-","t","y","p","e">>)
    IN  IF IsDefined(v) THEN ToLowerCase(v[1]) ELSE <<>>

\* the size of handleResponse: parseInt of a non-empty content-length, else undefined
SizeOf(details) ==
    LET v == HeaderValue(details.responseHeaders, <<"c","o","n","t","e","n","t","-","l","e","n","g","t","h">>)
    IN  IF IsDefined(v) /\ v[1] # <<>> THEN ParseInt(v[1]) ELSE Undefined

\* IsInvalidTab that lets the id -1 (chrome.tabs.TAB_ID_NONE) through
IsInvalidTab_BelowNone(tabId) == tabId < -1

\* tabId < 0
IsInvalidTab(tabId) == tabId < 0

\* handleResponse up to the call of addStream: the DetectedStream it builds,
\* undefined when it returns before
BuildStream(details, now) ==
    LET url == details.url
        contentType == ContentTypeOf(details)
        size == SizeOf(details)
        streamType == DetectStreamType(url, contentType)
    IN  IF IsInvalidTab(details.tabId) THEN Undefined
        ELSE IF /\ TruthyNumber(details.statusCode)
                /\ (details.statusCode[1] < 200 \/ details.statusCode[1] >= 400)
        THEN Undefined
        ELSE IF IsExcluded(url) THEN Undefined
        ELSE IF ~(\/ IsVideoMime(contentType)
                  \/ IsVideoUrl(url)
                  \/ (IsMediaType(details.type) /\ LooksLikeVideo(url, contentType)))
        THEN Undefined
        ELSE IF /\ TruthyNumber(size)
                /\ size[1] < 5000
                /\ streamType # "hls"
                /\ streamType # "dash"
        THEN Undefined
        ELSE Some([url |-> url,
                   type |-> streamType,
                   size |-> size,
                   quality |-> DetectQuality(url),
                   contentType |-> IF contentType # <<>> THEN Some(contentType)
                                   ELSE Undefined,
                   timestamp |-> now])

\* the message of notifyStreamDetected
StreamDetected(tabId, stream) ==
    [type |-> "STREAM_DETECTED", payload |-> stream, tabId |-> tabId]

\* HasExactUrl looking at the newest entry only
HasExactUrl_NewestOnly(existing, stream) ==
    existing # <<>> /\ existing[Len(existing)].url = stream.url

\* existing.some(s => s.url === stream.url)
HasExactUrl(existing, stream) ==
    \E i \in 1..Len(existing) : existing[i].url = stream.url

\* HasSimilar comparing the whole URLs
HasSimilar_WholeUrl(existing, stream) ==
    \E i \in 1..Len(existing) :
        /\ existing[i].url = stream.url
        /\ existing[i].type = stream.type

\* hasSimilar: an entry with the same text before the first '?' and the same type
HasSimilar(existing, stream) ==
    LET baseUrl == SplitFirst(stream.url, "?")
    IN  \E i \in 1..Len(existing) :
            /\ SplitFirst(existing[i].url, "?") = baseUrl
            /\ existing[i].type = stream.type

\* RejectsSimilar without the exemption of hls and dash
RejectsSimilar_NoExemption(hasSimilar, type) == hasSimilar

\* hasSimilar && stream.type !== 'hls' && stream.type !== 'dash'
RejectsSimilar(hasSimilar, type) == hasSimilar /\ type # "hls" /\ type # "dash"

\* ShiftOverflow with the bound off by one
ShiftOverflow_Late(pushed) == IF Len(pushed) > 31 THEN Tail(pushed) ELSE pushed

\* ShiftOverflow with pop() for shift(): the newest entry goes
ShiftOverflow_Pop(pushed) ==
    IF Len(pushed) > 30 THEN SubSeq(pushed, 1, Len(pushed) - 1) ELSE pushed

\* if (existing.length > 30) existing.shift()
ShiftOverflow(pushed) == IF Len(pushed) > 30 THEN Tail(pushed) ELSE pushed

\* AddStream that notifies before it looks at the list
AddStream_NotifyFirst(m, tabId, stream) ==
    LET existing == GetOrEmpty(m, tabId)
    IN  IF HasExactUrl(existing, stream)
        THEN [streams |-> m, sent |-> <<StreamDetected(tabId, stream)>>]
        ELSE IF RejectsSimilar(HasSimilar(existing, stream), stream.type)
        THEN [streams |-> m, sent |-> <<StreamDetected(tabId, stream)>>]
        ELSE [streams |-> MapSet(m, tabId, ShiftOverflow(Append(existing, stream))),
              sent |-> <<StreamDetected(tabId, stream)>>]

\* AddStream with unshift() for push(): the new entry is put first
AddStream_Unshift(m, tabId, stream) ==
    LET existing == GetOrEmpty(m, tabId)
    IN  IF HasExactUrl(existing, stream)
        THEN [streams |-> m, sent |-> <<>>]
        ELSE IF RejectsSimilar(HasSimilar(existing, stream), stream.type)
        THEN [streams |-> m, sent |-> <<>>]
        ELSE [streams |-> MapSet(m, tabId, ShiftOverflow(<<stream>> \o existing)),
              sent |-> <<StreamDetected(tabId, stream)>>]

\* addStream: the map and the messages sent
AddStream(m, tabId, stream) ==
    LET existing == GetOrEmpty(m, tabId)
    IN  IF HasExactUrl(existing, stream)
        THEN [streams |-> m, sent |-> <<>>]
        ELSE IF RejectsSimilar(HasSimilar(existing, stream), stream.type)
        THEN [streams |-> m, sent |-> <<>>]
        ELSE [streams |-> MapSet(m, tabId, ShiftOverflow(Append(existing, stream))),
              sent |-> <<StreamDetected(tabId, stream)>>]

----------------------------------------------------------------------------
(* The DOM scanner (content/videoDetector.ts).  A document is a record:    *)
(*   href, title      window.location.href, document.title                 *)
(*   platformTitle    text of the first YouTube title element with text    *)
(*   h1               trimmed text of the first h1                         *)
(*   videos           the video elements in document order, each with src, *)
(*                    currentSrc, area (width * height of its rectangle),  *)
(*                    title, ariaLabel, heading (text of the heading in    *)
(*                    its closest article, section or player div) and its  *)
(*                    nested source elements (src, type)                   *)
(*   iframes          the iframe elements (src, dataSrc, title)            *)
(*   sources          the source elements outside any video (src, the      *)
(*                    attribute as written)                                *)
(* The src properties are absolute URLs.  A VideoInfo is modelled without *)
(* duration and thumbnailUrl.  The Korean default titles are written in    *)
(* Latin letters.                                                          *)

\* a string that is neither undefined nor empty
TruthyString(o) == IsDefined(o) /\ o[1] # <<>>

\* StartsWith that never holds
StartsWith_Never(s, prefix) == FALSE

\* String.prototype.startsWith
StartsWith(s, prefix) == HasAt(s, prefix, 1)

\* String.prototype.trim, for blanks
RECURSIVE TrimStart(_)
TrimStart(s) == IF s # <<>> /\ Head(s) = " " THEN TrimStart(Tail(s)) ELSE s
RECURSIVE TrimEnd(_)
TrimEnd(s) ==
    IF s # <<>> /\ s[Len(s)] = " " THEN TrimEnd(SubSeq(s, 1, Len(s) - 1)) ELSE s
Trim(s) == TrimEnd(TrimStart(s))

\* String.prototype.replace with a string pattern: the first occurrence
ReplaceFirst(s, pattern, by) ==
    LET I == {i \in 1..Len(s) : HasAt(s, pattern, i)}
        i == CHOOSE i \in I : \A j \in I : i <= j
    IN  IF I = {} THEN s
        ELSE SubSeq(s, 1, i - 1) \o by \o SubSeq(s, i + Len(pattern), Len(s))

\* s.match(/(?:lit1|lit2|...)(c+)/): the group of the leftmost match, where c is
\* a character of the class chars; no two of the literals match at one index
MatchGroup(s, literals, chars) ==
    LET At(i) == {l \in literals : HasAt(s, l, i) /\ RunLen(s, i + Len(l), chars) >= 1}
        I == {i \in 1..Len(s) : At(i) # {}}
        i == CHOOSE i \in I : \A j \in I : i <= j
        l == CHOOSE l \in At(i) : TRUE
    IN  IF I = {} THEN Undefined
        ELSE Some(SubSeq(s, i + Len(l), i + Len(l) + RunLen(s, i + Len(l), chars) - 1))

\* the characters of s that the class [^...] with the characters excluded admits
CharsExcept(s, excluded) == Range(s) \ excluded

VideoInfo(platform, videoId, title, url, sourceUrl, videoStreams) ==
    [platform |-> platform, videoId |-> videoId, title |-> title, url |-> url,
     sourceUrl |-> sourceUrl, streams |-> videoStreams]

\* the default titles
TitleVideo == <<"b","i","d","i","o">>
TitleVideoNumbered(n) == TitleVideo \o <<" ">> \o NumberToString(n)
TitleYouTubeVideo == <<"Y","o","u","T","u","b","e"," ">> \o TitleVideo
TitleVimeoVideo == <<"V","i","m","e","o"," ">> \o TitleVideo
TitleEmbeddedVideo == <<"i","m","b","e","d","e","u"," ">> \o TitleVideo

ExtractYouTubeVideoId(url) ==
    LET idChars == CharsExcept(url, {"&", "\n", "?", "#"})
        m1 == MatchGroup(url, {<<"y","o","u","t","u","b","e",".","c","o","m","/","w","a","t","c","h","?","v","=">>, <<"y","o","u","t","u",".","b","e","/">>,
                               <<"y","o","u","t","u","b","e",".","c","o","m","/","e","m","b","e","d","/">>}, idChars)
        m2 == MatchGroup(url, {<<"y","o","u","t","u","b","e",".","c","o","m","/","s","h","o","r","t","s","/">>}, idChars)
        m3 == MatchGroup(url, {<<"y","o","u","t","u","b","e",".","c","o","m","/","l","i","v","e","/">>}, idChars)
    IN  IF IsDefined(m1) THEN m1 ELSE IF IsDefined(m2) THEN m2 ELSE m3

DetectYouTube(doc) ==
    LET url == doc.href
        videoId == ExtractYouTubeVideoId(url)
        title == IF TruthyString(doc.platformTitle) THEN doc.platformTitle[1]
                 ELSE ReplaceFirst(doc.title, <<" ","-"," ","Y","o","u","T","u","b","e">>, <<>>)
    IN  IF ~Includes(url, <<"y","o","u","t","u","b","e",".","c","o","m">>) /\ ~Includes(url, <<"y","o","u","t","u",".","b","e">>)
        THEN Undefined
        ELSE IF ~IsDefined(videoId) THEN Undefined
        ELSE Some(VideoInfo("youtube", videoId, title, url, Undefined, Undefined))

DetectVimeo(doc) ==
    LET url == doc.href
        videoIdMatch == MatchGroup(url, {<<"v","i","m","e","o",".","c","o","m","/">>}, DigitChars)
        title == IF TruthyString(doc.h1) THEN doc.h1[1] ELSE doc.title
    IN  IF ~Includes(url, <<"v","i","m","e","o",".","c","o","m">>) THEN Undefined
        ELSE IF ~IsDefined(videoIdMatch) THEN Undefined
        ELSE Some(VideoInfo("vimeo", videoIdMatch, title, url, Undefined, Undefined))

DetectStreamTypeFromUrl(url) ==
    LET lower == ToLowerCase(url)
    IN  IF Includes(lower, <<".","m","3","u","8">>) THEN "hls"
        ELSE IF Includes(lower, <<".","m","p","d">>) THEN "dash"
        ELSE IF Includes(lower, <<".","m","p","4">>) THEN "mp4"
        ELSE IF Includes(lower, <<".","w","e","b","m">>) THEN "webm"
        ELSE IF Includes(lower, <<".","f","l","v">>) THEN "flv"
        ELSE "unknown"

\* a DetectedStream built by the scanner
ScannedStream(url, contentType, now) ==
    [url |-> url, type |-> DetectStreamTypeFromUrl(url), size |-> Undefined,
     quality |-> Undefined, contentType |-> contentType, timestamp |-> now]

ExtractVideoTitle(video, doc) ==
    IF video.title # <<>> THEN video.title
    ELSE IF TruthyString(video.ariaLabel) THEN video.ariaLabel[1]
    ELSE IF TruthyString(video.heading) THEN Trim(video.heading[1])
    ELSE doc.title

\* ExtractVideoSources that reads the src of the video element only
ExtractVideoSources_NoNested(video, now) ==
    IF video.src # <<>> /\ ~StartsWith(video.src, <<"b","l","o","b",":">>)
    THEN <<ScannedStream(video.src, Undefined, now)>>
    ELSE <<>>

ExtractVideoSources(video, now) ==
    LET main == IF video.src # <<>> /\ ~StartsWith(video.src, <<"b","l","o","b",":">>)
                THEN <<ScannedStream(video.src, Undefined, now)>>
                ELSE <<>>
        Usable(source) == source.src # <<>> /\ ~StartsWith(source.src, <<"b","l","o","b",":">>)
        usable == SelectSeq(video.sources, Usable)
    IN  main \o [i \in 1..Len(usable) |->
                    ScannedStream(usable[i].src,
                                  IF usable[i].type # <<>> THEN Some(usable[i].type)
                                  ELSE Undefined,
                                  now)]

\* the VideoInfo of the video element with the index (from 0) in the document
Html5VideoInfo(doc, index, now) ==
    LET video == doc.videos[index + 1]
        direct == IF video.src # <<>> THEN video.src ELSE video.currentSrc
        sourceUrl == IF direct # <<>> THEN direct
                     ELSE IF video.sources # <<>> THEN video.sources[1].src
                     ELSE <<>>
        isBlobUrl == StartsWith(sourceUrl, <<"b","l","o","b",":">>)
        title == ExtractVideoTitle(video, doc)
    IN  VideoInfo("html5",
                  Undefined,
                  IF title # <<>> THEN title ELSE TitleVideoNumbered(index + 1),
                  doc.href,
                  IF isBlobUrl THEN Undefined ELSE Some(sourceUrl),
                  Some(ExtractVideoSources(video, now)))

\* a sequence of the elements of the set of numbers I, in increasing order
RECURSIVE Ascending(_)
Ascending(I) ==
    IF I = {} THEN <<>>
    ELSE LET least == CHOOSE i \in I : \A j \in I : i <= j
         IN  <<least>> \o Ascending(I \ {least})

DetectAllHTML5Videos(doc, now) ==
    LET shown == Ascending({i \in 1..Len(doc.videos) : ~(doc.videos[i].area < 10000)})
    IN  [k \in 1..Len(shown) |-> Html5VideoInfo(doc, shown[k] - 1, now)]

\* what the callback of detectIframeVideos pushes for an iframe
IframeVideoInfo(iframe) ==
    LET src == IF iframe.src # <<>> THEN iframe.src
               ELSE IF TruthyString(iframe.dataSrc) THEN iframe.dataSrc[1]
               ELSE <<>>
        ytMatch == MatchGroup(src, {<<"y","o","u","t","u","b","e",".","c","o","m","/","e","m","b","e","d","/">>}, CharsExcept(src, {"?", "&"}))
        vimeoMatch == MatchGroup(src, {<<"p","l","a","y","e","r",".","v","i","m","e","o",".","c","o","m","/","v","i","d","e","o","/">>}, DigitChars)
    IN  IF IsDefined(ytMatch)
        THEN <<VideoInfo("youtube", ytMatch,
                         IF iframe.title # <<>> THEN iframe.title ELSE TitleYouTubeVideo,
                         src, Undefined, Undefined)>>
        ELSE IF IsDefined(vimeoMatch)
        THEN <<VideoInfo("vimeo", vimeoMatch,
                         IF iframe.title # <<>> THEN iframe.title ELSE TitleVimeoVideo,
                         src, Undefined, Undefined)>>
        ELSE IF \/ Includes(src, <<"v","i","d","e","o">>)
                \/ Includes(src, <<"p","l","a","y","e","r">>)
                \/ Includes(src, <<"e","m","b","e","d">>)
        THEN <<VideoInfo("html5", Undefined,
                         IF iframe.title # <<>> THEN iframe.title ELSE TitleEmbeddedVideo,
                         src, Undefined, Undefined)>>
        ELSE <<>>

RECURSIVE Flatten(_)
Flatten(lists) == IF lists = <<>> THEN <<>> ELSE Head(lists) \o Flatten(Tail(lists))

DetectIframeVideos(doc) ==
    Flatten([i \in 1..Len(doc.iframes) |-> IframeVideoInfo(doc.iframes[i])])

\* source[src*=".mp4"], source[src*=".webm"], source[src*=".m3u8"]
MatchesSourceSelector(source) ==
    \/ Includes(source.src, <<".","m","p","4">>)
    \/ Includes(source.src, <<".","w","e","b","m">>)
    \/ Includes(source.src, <<".","m","3","u","8">>)

DetectSourceTags(doc, now) ==
    LET selected == SelectSeq(doc.sources, MatchesSourceSelector)
    IN  [i \in 1..Len(selected) |->
            VideoInfo("html5", Undefined, doc.title, doc.href, Some(selected[i].src),
                      Some(<<ScannedStream(selected[i].src, Undefined, now)>>))]

\* DedupKey that is the page URL, whatever else the VideoInfo has
DedupKey_PageUrl(video) == video.url

\* video.videoId || video.sourceUrl || video.url
DedupKey(video) ==
    IF TruthyString(video.videoId) THEN video.videoId[1]
    ELSE IF TruthyString(video.sourceUrl) THEN video.sourceUrl[1]
    ELSE video.url

RECURSIVE DeduplicateFrom(_, _)
DeduplicateFrom(videoList, seen) ==
    IF videoList = <<>> THEN <<>>
    ELSE LET key == DedupKey(Head(videoList))
         IN  IF key \in seen THEN DeduplicateFrom(Tail(videoList), seen)
             ELSE <<Head(videoList)>> \o DeduplicateFrom(Tail(videoList), seen \cup {key})

DeduplicateVideos(videoList) == DeduplicateFrom(videoList, {})

\* the list that detectAll hands to deduplicateVideos
DetectedInOrder(doc, now) ==
    DetectYouTube(doc) \o DetectVimeo(doc) \o DetectAllHTML5Videos(doc, now)
        \o DetectIframeVideos(doc) \o DetectSourceTags(doc, now)

DetectAll(doc, now) == DeduplicateVideos(DetectedInOrder(doc, now))

\* the reply of the content script to GET_VIDEO_INFO
VideoInfoResponse(detectedVideos) ==
    [payload |-> IF detectedVideos # <<>> THEN Some(detectedVideos[1]) ELSE Undefined,
     videos |-> detectedVideos]

----------------------------------------------------------------------------
(* The lists shown to the user: fetchVideos of the side panel and          *)
(* getVideoItems of the popup.  Entries are modelled without duration,     *)
(* thumbnailUrl and id; the title that the popup derives from the URL of a *)
(* stream is not modelled.                                                 *)

\* tab.title || default
PageTitle(doc) == IF doc.title # <<>> THEN doc.title ELSE TitleVideo

\* what fetchVideos pushes for a VideoInfo
PanelVideo(v, pageTitle) ==
    [title |-> IF v.title # <<>> THEN v.title ELSE pageTitle, url |-> v.url,
     sourceUrl |-> v.sourceUrl, platform |-> v.platform, videoId |-> v.videoId,
     size |-> Undefined, quality |-> Undefined]

\* what fetchVideos pushes for the stream with the index (from 0) in a payload of
\* count streams
PanelStream(stream, index, count, pageTitle) ==
    [title |-> IF count > 1
               THEN pageTitle \o <<" ","(">> \o NumberToString(index + 1) \o <<")">>
               ELSE pageTitle,
     url |-> stream.url, sourceUrl |-> Undefined, platform |-> "stream",
     videoId |-> Undefined, size |-> stream.size, quality |-> stream.quality]

\* the forEach over streamResponse.payload, from the stream with the index on
RECURSIVE PushPanelStreams(_, _, _, _)
PushPanelStreams(list, payload, index, pageTitle) ==
    IF index >= Len(payload) THEN list
    ELSE LET stream == payload[index + 1]
             known == \E i \in 1..Len(list) : list[i].url = stream.url
         IN  PushPanelStreams(
                 IF known THEN list
                 ELSE Append(list, PanelStream(stream, index, Len(payload), pageTitle)),
                 payload, index + 1, pageTitle)

\* the list that fetchVideos hands to setDetectedVideos
FetchVideos(videoResponse, payload, pageTitle) ==
    LET videoList == videoResponse.videos
        HasUrl(v) == v.url # <<>>
        listed == SelectSeq(videoList, HasUrl)
    IN  PushPanelStreams([i \in 1..Len(listed) |-> PanelVideo(listed[i], pageTitle)],
                         payload, 0, pageTitle)

\* what getVideoItems pushes for state.videoInfo
ItemVideo(videoInfo) ==
    [type |-> "video", title |-> IF videoInfo.title # <<>> THEN videoInfo.title
                                 ELSE TitleVideo,
     platform |-> Some(videoInfo.platform), url |-> videoInfo.url,
     sourceUrl |-> videoInfo.sourceUrl, streamType |-> Undefined,
     quality |-> Undefined, size |-> Undefined]

\* what getVideoItems pushes for a stream
ItemStream(stream) ==
    [type |-> "stream", title |-> <<>>, platform |-> Undefined, url |-> stream.url,
     sourceUrl |-> Undefined, streamType |-> Some(stream.type),
     quality |-> stream.quality, size |-> stream.size]

\* the forEach over state.streams, from the stream with the index on
RECURSIVE PushItemStreams(_, _, _)
PushItemStreams(list, streamList, index) ==
    IF index >= Len(streamList) THEN list
    ELSE LET stream == streamList[index + 1]
             isDuplicate == \E i \in 1..Len(list) :
                                \/ list[i].url = stream.url
                                \/ list[i].sourceUrl = Some(stream.url)
         IN  PushItemStreams(IF isDuplicate THEN list
                             ELSE Append(list, ItemStream(stream)),
                             streamList, index + 1)

\* getVideoItems for the state that the popup sets after its fetch
GetVideoItems(videoInfo, streamList) ==
    PushItemStreams(IF IsDefined(videoInfo) THEN <<ItemVideo(videoInfo[1])>> ELSE <<>>,
                    streamList, 0)

----------------------------------------------------------------------------
(* Inputs.                                                                 *)

TabIds == {1, 2}

UrlMp4T1 == <<"h",".","i","o","/","v","i","d","e","o",".","m","p","4","?","t","=","1">>
UrlMp4T2 == <<"h",".","i","o","/","v","i","d","e","o",".","m","p","4","?","t","=","2">>
UrlSeg1 == <<"h",".","i","o","/","s","e","g","1",".","t","s">>
UrlSeg2 == <<"h",".","i","o","/","s","e","g","2",".","t","s">>
UrlHlsV1 == <<"h",".","i","o","/","a",".","m","3","u","8","?","v","=","1">>
UrlHlsV2 == <<"h",".","i","o","/","a",".","m","3","u","8","?","v","=","2">>
UrlMpd == <<"h",".","i","o","/","x",".","m","p","d">>
UrlAdTracking == <<"h",".","i","o","/","a","d","/","t","r","a","c","k","i","n","g","/","v","i","d","e","o",".","m","p","4","?","x","=","1">>
UrlPng == <<"h",".","i","o","/","l","o","g","o",".","P","N","G">>
UrlThumbnail == <<"h",".","i","o","/","t","h","u","m","b","n","a","i","l","/","v",".","w","e","b","m">>
UrlWatch == <<"h",".","i","o","/","w","a","t","c","h","?","v","=","9">>
UrlApi == <<"h",".","i","o","/","a","p","i","/","d","a","t","a">>

Header(name, value) == [name |-> name, value |-> Some(value)]
ContentType(value) == Header(<<"C","o","n","t","e","n","t","-","T","y","p","e">>, value)
ContentLength(value) == Header(<<"c","o","n","t","e","n","t","-","l","e","n","g","t","h">>, value)

Details(url, tabId, type, statusCode, responseHeaders) ==
    [url |-> url, tabId |-> tabId, type |-> type, statusCode |-> statusCode,
     responseHeaders |-> responseHeaders]

HeadersMp4Big == Some(<<ContentType(<<"v","i","d","e","o","/","m","p","4">>), ContentLength(<<"1","0","0","0","0","0">>)>>)
HeadersSmall == Some(<<ContentLength(<<"1","2","0","0">>)>>)

HeadersNone == Some(<<>>)

\* the responses of Spec.  Tab 1: two MP4 URLs and two HLS URLs that differ in the
\* query only, a URL with a media keyword only, and responses that are to be
\* rejected.  Tab 2: the two MP4 URLs.
Responses ==
    {Details(u, 1, "media", Some(200), HeadersMp4Big) :
        u \in {UrlMp4T1, UrlMp4T2, UrlWatch, UrlAdTracking}}
    \cup {Details(u, 1, "xmlhttprequest", Some(200), HeadersSmall) :
        u \in {UrlHlsV1, UrlHlsV2, UrlMp4T1}}
    \cup {Details(u, 2, "media", Some(200), HeadersMp4Big) : u \in {UrlMp4T1, UrlMp4T2}}
    \cup {Details(UrlWatch, t, "image", Undefined, HeadersNone) : t \in TabIds}
    \cup {Details(UrlMp4T2, t, "media", Some(404), HeadersMp4Big) : t \in TabIds}

LoadingNewUrl == [status |-> Some("loading"), url |-> Some(<<"h",".","i","o","/","n","e","x","t">>)]
LoadingSameUrl == [status |-> Some("loading"), url |-> Undefined]
Complete == [status |-> Some("complete"), url |-> Undefined]
ChangeInfos == {LoadingNewUrl, LoadingSameUrl, Complete}

\* the responses of SpecFunnel: every combination of URL, headers, resource type,
\* status and tab id
FunnelUrls ==
    {UrlMp4T1, UrlMp4T2, UrlSeg1, UrlHlsV2, UrlMpd, UrlAdTracking, UrlPng,
     UrlThumbnail, UrlWatch, UrlApi}
FunnelContentTypes ==
    {<<>>, <<ContentType(<<"v","i","d","e","o","/","m","p","4">>)>>, <<ContentType(<<"i","m","a","g","e","/","p","n","g">>)>>,
     <<ContentType(<<"a","p","p","l","i","c","a","t","i","o","n","/","o","c","t","e","t","-","s","t","r","e","a","m">>)>>,
     <<ContentType(<<"A","p","p","l","i","c","a","t","i","o","n","/","v","n","d",".","a","p","p","l","e",".","m","p","e","g","U","R","L">>)>>}
FunnelContentLengths ==
    {<<>>, <<ContentLength(<<"0">>)>>, <<ContentLength(<<"1","2","0","0">>)>>,
     <<ContentLength(<<"4","9","9","9">>)>>, <<ContentLength(<<"5","0","0","0">>)>>}
FunnelHeaders == {Some(ct \o cl) : ct \in FunnelContentTypes, cl \in FunnelContentLengths}
FunnelResponses ==
    {Details(u, t, ty, st, h) :
        u \in FunnelUrls,
        t \in {-1, 1},
        ty \in {"media", "image", "xmlhttprequest"},
        st \in {Undefined, Some(200), Some(404)},
        h \in FunnelHeaders}

\* the responses that come first in SpecFunnel: an MP4, an HLS and a segment
\* response that are inserted, and one that is rejected
SeedResponses ==
    {Details(UrlMp4T1, 1, "media", Some(200), HeadersMp4Big),
     Details(UrlHlsV1, 1, "xmlhttprequest", Some(200), HeadersSmall),
     Details(UrlSeg2, 1, "xmlhttprequest", Some(200), HeadersSmall),
     Details(UrlApi, 1, "image", Some(200), HeadersNone)}

\* the URLs of SpecQuality: a path with or without quality tokens, a parameter, and
\* further parameters
QualityPaths ==
    {<<"h",".","i","o","/","v","?">>, <<"h",".","i","o","/","v","_","7","2","0","p","_","a","?">>, <<"h",".","i","o","/","1","0","8","0","p","/","v","_","7","2","0","p","_","a","?">>,
     <<"h",".","i","o","/","c","/","1","9","2","0","x","1","0","8","0","/","v","?">>, <<"h",".","i","o","/","v","?","q","u","a","l","i","t","y","=","h","d","&">>, <<"h",".","i","o","/","c","l","i","p","4","8","0","/","v","?">>}
QualityParams ==
    {<<"i","t","a","g","=","3","7">>, <<"I","T","A","G","=","3","7">>, <<"i","t","a","g","=","3","7","1">>, <<"i","t","a","g","_","2","2">>, <<"r","e","s","=","4","8","0">>, <<"x","=","1">>}
QualityTails == {<<>>, <<"&","r","e","s","=","4","8","0">>, <<"&","n","=","_","h","d","_">>, <<"&","c","=","4","8","0","p">>}
QualityUrls ==
    {path \o param \o tail :
        path \in QualityPaths, param \in QualityParams, tail \in QualityTails}
QualityResponses ==
    {Details(url, 1, "media", Some(200), HeadersMp4Big) : url \in QualityUrls}

\* the responses of SpecStatus: every status code of StatusCodes, or none
StatusCodes == {0, 100, 199, 200, 206, 302, 399, 400, 404, 599}
StatusResponses ==
    {Details(u, 1, ty, st, h) :
        u \in {UrlMp4T2, UrlHlsV2, UrlWatch},
        ty \in {"media", "xmlhttprequest"},
        st \in {Undefined} \cup {Some(code) : code \in StatusCodes},
        h \in {HeadersMp4Big, HeadersSmall, HeadersNone}}

\* the responses of SpecKinds: every resource type of ResourceTypes, for URLs with
\* and without a media keyword and content types on and off the MIME list
ResourceTypes ==
    {"media", "xmlhttprequest", "other", "image", "script", "sub_frame", "font"}
UrlClip == <<"h",".","i","o","/","c","l","i","p","/","7">>
KindResponses ==
    {Details(u, 1, ty, Some(200), h) :
        u \in {UrlWatch, UrlClip, UrlApi, UrlMp4T2, UrlAdTracking},
        ty \in ResourceTypes,
        h \in {HeadersNone, HeadersSmall, HeadersMp4Big,
               Some(<<ContentType(<<"i","m","a","g","e","/","p","n","g">>)>>),
               Some(<<ContentType(<<"a","p","p","l","i","c","a","t","i","o","n","/","o","c","t","e","t","-","s","t","r","e","a","m">>)>>)}}

MaxEvents == 3
MaxSegments == 32

\* the documents.  A page URL of no platform, of YouTube and of Vimeo
Document(href, videoElements, iframes, sources) ==
    [href |-> href, title |-> <<"P","a","g","e">>, platformTitle |-> Undefined, h1 |-> Undefined,
     videos |-> videoElements, iframes |-> iframes, sources |-> sources]

EmptyDocument == Document(<<>>, <<>>, <<>>, <<>>)

HrefPage == <<"h",".","i","o","/","p","a","g","e">>
HrefWatch == <<"y","o","u","t","u","b","e",".","c","o","m","/","w","a","t","c","h","?","v","=","a","b","c","&","t","=","1">>
HrefVimeo == <<"v","i","m","e","o",".","c","o","m","/","4","2">>
Hrefs == {HrefPage, HrefWatch, HrefVimeo}

UrlA == <<"h",".","i","o","/","a",".","m","p","4">>
UrlB == <<"h",".","i","o","/","b",".","w","e","b","m">>
UrlBlob == <<"b","l","o","b",":","h",".","i","o","/","1">>

VideoElement(src, currentSrc, area, sources) ==
    [src |-> src, currentSrc |-> currentSrc, area |-> area, title |-> <<>>,
     ariaLabel |-> Undefined, heading |-> Undefined, sources |-> sources]

SourceElement(src, type) == [src |-> src, type |-> type]

\* <video src="a.mp4"><source src="b.webm"></video> with the area
VideoAB(area) == VideoElement(UrlA, UrlA, area, <<SourceElement(UrlB, <<>>)>>)

\* a video element played from a blob, one with source elements only, and one
\* with nothing to play
VideoBlob == VideoElement(UrlBlob, UrlBlob, 20000, <<SourceElement(UrlA, <<>>)>>)
VideoSourceOnly ==
    VideoElement(<<>>, <<>>, 20000, <<SourceElement(UrlB, <<"v","i","d","e","o","/","w","e","b","m">>)>>)
VideoBare == VideoElement(<<>>, <<>>, 20000, <<>>)

\* <video src="c.m4v"> with a nested source element for a segment
UrlM4v == <<"h",".","i","o","/","c",".","m","4","v">>
VideoM4v == VideoElement(UrlM4v, UrlM4v, 20000, <<SourceElement(UrlSeg1, <<>>)>>)

\* a video element without src whose first source element is a blob
VideoBlobSource ==
    VideoElement(<<>>, <<>>, 20000,
                 <<SourceElement(UrlBlob, <<>>), SourceElement(UrlB, <<>>)>>)

VideoElements ==
    {VideoAB(9999), VideoAB(10000), VideoAB(20000), VideoBlob, VideoSourceOnly,
     VideoBare, VideoM4v, VideoBlobSource}

Iframe(src) == [src |-> src, dataSrc |-> Undefined, title |-> <<>>]
Iframes ==
    {Iframe(<<"y","o","u","t","u","b","e",".","c","o","m","/","e","m","b","e","d","/","a","b","c","?","r","e","l","=","0">>), Iframe(<<"p","l","a","y","e","r",".","v","i","m","e","o",".","c","o","m","/","v","i","d","e","o","/","4","2">>),
     Iframe(<<"h",".","i","o","/","p","l","a","y","e","r","/","1">>), Iframe(<<"h",".","i","o","/","a","d","s">>)}

OrphanSources == {[src |-> UrlA], [src |-> <<"h",".","i","o","/","c",".","M","P","4">>], [src |-> UrlB]}

\* the sequences over a set with at most n elements
SeqUpTo(S, n) == UNION {[1..k -> S] : k \in 0..n}

Documents ==
    {Document(href, v, f, o) :
        href \in Hrefs, v \in SeqUpTo(VideoElements, 2), f \in SeqUpTo(Iframes, 1),
        o \in SeqUpTo(OrphanSources, 1)}

\* SpecPanel: the pages, the tab they are shown in and the responses of that tab
PanelTab == 1
PanelDocuments ==
    {Document(HrefPage, <<VideoAB(10000)>>, <<>>, <<>>),
     Document(UrlA, <<VideoElement(UrlA, UrlA, 20000, <<>>)>>, <<>>, <<>>),
     Document(HrefWatch, <<VideoBlob>>, <<>>, <<>>),
     Document(HrefPage, <<>>, <<Iframe(<<"h",".","i","o","/","p","l","a","y","e","r","/","1">>)>>, <<[src |-> UrlB]>>),
     Document(HrefPage, <<>>, <<>>, <<>>)}
PanelResponses ==
    {Details(u, PanelTab, "media", Some(200), HeadersMp4Big) :
        u \in {UrlA, UrlB, <<"h",".","i","o","/","p","l","a","y","e","r","/","1">>, UrlMp4T1}}
    \cup {Details(UrlHlsV1, PanelTab, "xmlhttprequest", Some(200), HeadersSmall)}
MaxPanelEvents == 2

\* SpecBadge: the responses, and the videos that a content script reports: the
\* first that the scan of a page finds
BadgeResponses ==
    {Details(u, t, "media", Some(200), HeadersMp4Big) :
        u \in {UrlMp4T1, UrlA}, t \in TabIds}
BadgeVideos ==
    {DetectAll(doc, 0)[1] :
        doc \in {Document(HrefPage, <<VideoAB(10000)>>, <<>>, <<>>),
                 Document(HrefWatch, <<VideoBlob>>, <<>>, <<>>)}}
MaxBadgeEvents == 2

\* the n-th segment of a stream
SegmentUrl(n) == <<"h",".","i","o","/","s","e","g">> \o NumberToString(n) \o <<".","t","s">>

----------------------------------------------------------------------------
(* Handlers.  TLC evaluates a constant once: Classified holds, for every   *)
(* response of the model, what handleResponse builds for it.               *)

SegmentResponse(n) ==
    Details(SegmentUrl(n), 1, "xmlhttprequest", Some(200), HeadersSmall)

AllResponses ==
    Responses \cup FunnelResponses \cup SeedResponses \cup QualityResponses
        \cup StatusResponses \cup PanelResponses \cup KindResponses
        \cup BadgeResponses
        \cup {SegmentResponse(n) : n \in 1..MaxSegments}

Classified == [details \in AllResponses |-> BuildStream(details, 0)]

\* BuildStream(details, now), read from Classified
BuildStreamAt(details, now) ==
    LET built == Classified[details]
    IN  IF IsDefined(built) THEN Some([built[1] EXCEPT !.timestamp = now])
        ELSE Undefined

\* handleResponse, as called by the onResponseStarted and onHeadersReceived listeners
HandleResponse(details) ==
    LET built == BuildStreamAt(details, clock)
        r == IF IsDefined(built) THEN AddStream(streams, details.tabId, built[1])
             ELSE [streams |-> streams, sent |-> <<>>]
    IN  /\ streams' = r.streams
        /\ notified' = r.sent
        /\ clock' = clock + 1

\* OnTabRemoved that drops the lists of all tabs
OnTabRemoved_All(tabId) ==
    /\ streams' = <<>>
    /\ notified' = <<>>
    /\ UNCHANGED clock

\* OnTabRemoved that leaves the list of the tab in the map
OnTabRemoved_Keep(tabId) ==
    /\ streams' = streams
    /\ notified' = <<>>
    /\ UNCHANGED clock

\* the chrome.tabs.onRemoved listener
OnTabRemoved(tabId) ==
    /\ streams' = MapDelete(streams, tabId)
    /\ notified' = <<>>
    /\ UNCHANGED clock

\* IsNavigationStart waiting for the page to be complete
IsNavigationStart_Complete(changeInfo) == changeInfo.status = Some("complete")

\* changeInfo.status === 'loading' && changeInfo.url
IsNavigationStart(changeInfo) ==
    /\ changeInfo.status = Some("loading")
    /\ IsDefined(changeInfo.url)
    /\ changeInfo.url[1] # <<>>

\* the chrome.tabs.onUpdated listener
OnTabUpdated(tabId, changeInfo) ==
    /\ streams' = IF IsNavigationStart(changeInfo) THEN MapSet(streams, tabId, <<>>)
                  ELSE streams
    /\ notified' = <<>>
    /\ UNCHANGED clock

\* sendMessage(...).catch(() => {}): nobody listens, the promise is rejected and
\* the callback ignores it
OnNotifyRejected ==
    /\ notified' = <<>>
    /\ UNCHANGED <<streams, clock>>

\* updateBadge(count, tabId), for a tab id that is not 0
UpdateBadge(count, tabId) == badge' = Some([tabId |-> tabId, count |-> count])

\* the runtime.onMessage listener of the background, case VIDEO_DETECTED, for a
\* message of the content script of the tab
OnVideoDetected(tabId, payload) ==
    /\ videoInfoCache' = MapSet(videoInfoCache, tabId, payload)
    /\ UpdateBadge(Len(getStreams(tabId)) + 1, tabId)
    /\ notified' = <<>>
    /\ UNCHANGED <<streams, clock>>

\* the chrome.tabs.onActivated listener.  (The listener of the background for
\* STREAM_DETECTED computes the same count; runtime.onMessage does not fire in
\* the context that sent the message, which for these messages is the
\* background itself, so it is no step here.)
OnTabActivated(tabId) ==
    LET cached == tabId \in DOMAIN videoInfoCache
    IN  /\ UpdateBadge(Len(getStreams(tabId)) + (IF cached THEN 1 ELSE 0), tabId)
        /\ notified' = <<>>
        /\ UNCHANGED <<streams, clock, videoInfoCache>>

----------------------------------------------------------------------------
(* Specifications.                                                         *)

\* the entries that this step put into the list of tab t
Inserted(t) == Range(GetOrEmpty(streams', t)) \ Range(GetOrEmpty(streams, t))

NewSession == [state |-> "active", inserted |-> 0, held |-> {}, reported |-> FALSE]

\* history of the sessions; navigated and closed are the tabs of which this step
\* starts a navigation, which it closes.
\*   state     "reset" after a navigation start and "closed" after a close, until an
\*             entry is inserted: then "navigated" and "reused"
\*   inserted  the number of entries inserted since the last navigation start or close
\*   held      the URLs the list held when the navigation started, the tab was closed
\*   reported  a VIDEO_DETECTED message of the tab has come since the last
\*             navigation start or close (set by VideoDetected)
History(navigated, closed) ==
    session' = [t \in TabIds |->
        LET old == session[t]
            held == {e.url : e \in Range(getStreams(t))}
        IN  IF t \in closed
            THEN [state |-> "closed", inserted |-> 0, held |-> held, reported |-> FALSE]
            ELSE IF t \in navigated
            THEN [state |-> "reset", inserted |-> 0, held |-> held, reported |-> FALSE]
            ELSE IF Inserted(t) # {}
            THEN [state |-> CASE old.state = "reset" -> "navigated"
                              [] old.state = "closed" -> "reused"
                              [] OTHER -> old.state,
                  inserted |-> old.inserted + Cardinality(Inserted(t)),
                  held |-> old.held,
                  reported |-> old.reported]
            ELSE old]

\* the handler calls updateBadge not at all
NoBadge == badge' = <<>>

\* no page has been scanned and no list has been built
NoPage ==
    /\ document = EmptyDocument
    /\ videos = <<>>
    /\ display = <<>>
    /\ items = <<>>
    /\ videoInfoCache = <<>>
    /\ badge = <<>>

Init ==
    /\ streams = <<>>
    /\ notified = <<>>
    /\ clock = 0
    /\ observations = <<>>
    /\ session = [t \in TabIds |-> NewSession]
    /\ NoPage

\* a response is observed
Response ==
    \E details \in Responses :
        /\ clock < MaxEvents
        /\ HandleResponse(details)
        /\ History({}, {})
        /\ observations' = <<details>>
        /\ UNCHANGED page
        /\ NoBadge

\* a tab reports a change
TabUpdated ==
    \E tabId \in TabIds, changeInfo \in ChangeInfos :
        /\ OnTabUpdated(tabId, changeInfo)
        /\ History(IF changeInfo = LoadingNewUrl THEN {tabId} ELSE {}, {})
        /\ UNCHANGED <<observations, page>>
        /\ NoBadge

\* a tab is closed
TabRemoved ==
    \E tabId \in TabIds :
        /\ OnTabRemoved(tabId)
        /\ History({}, {tabId})
        /\ UNCHANGED <<observations, page>>
        /\ NoBadge

\* a message that was sent is not delivered
NotifyRejected ==
    /\ notified # <<>>
    /\ OnNotifyRejected
    /\ History({}, {})
    /\ UNCHANGED <<observations, page>>
    /\ NoBadge

Next == Response \/ TabUpdated \/ TabRemoved \/ NotifyRejected

Spec == Init /\ [][Next]_vars

\* SpecFunnel: two responses are in flight, a seed and any response at all; they are
\* observed in this order, observations[clock + 1] next
InitFunnel ==
    /\ streams = <<>>
    /\ notified = <<>>
    /\ clock = 0
    /\ observations \in
           {<<seed, details>> : seed \in SeedResponses, details \in FunnelResponses}
    /\ session = [t \in TabIds |-> NewSession]
    /\ NoPage

\* the next response in flight is observed
Deliver ==
    /\ clock < Len(observations)
    /\ HandleResponse(observations[clock + 1])
    /\ History({}, {})
    /\ UNCHANGED <<observations, page>>
    /\ NoBadge

NextFunnel == Deliver

SpecFunnel == InitFunnel /\ [][NextFunnel]_vars

\* SpecQuality: one response for a URL of QualityUrls is observed
InitQuality ==
    /\ streams = <<>>
    /\ notified = <<>>
    /\ clock = 0
    /\ observations \in {<<details>> : details \in QualityResponses}
    /\ session = [t \in TabIds |-> NewSession]
    /\ NoPage

SpecQuality == InitQuality /\ [][NextFunnel]_vars

\* SpecStatus: a seed and a response with any status code are observed
InitStatus ==
    /\ streams = <<>>
    /\ notified = <<>>
    /\ clock = 0
    /\ observations \in
           {<<seed, details>> : seed \in SeedResponses, details \in StatusResponses}
    /\ session = [t \in TabIds |-> NewSession]
    /\ NoPage

SpecStatus == InitStatus /\ [][NextFunnel]_vars

\* SpecKinds: a seed and a response of any resource type are observed
InitKinds ==
    /\ streams = <<>>
    /\ notified = <<>>
    /\ clock = 0
    /\ observations \in
           {<<seed, details>> : seed \in SeedResponses, details \in KindResponses}
    /\ session = [t \in TabIds |-> NewSession]
    /\ NoPage

SpecKinds == InitKinds /\ [][NextFunnel]_vars

\* SpecSegments: tab 1 plays a stream, one new segment per response
Segment ==
    /\ clock < MaxSegments
    /\ HandleResponse(SegmentResponse(clock + 1))
    /\ History({}, {})
    /\ UNCHANGED <<observations, page>>
    /\ NoBadge

\* once the list of tab 1 is full, the player may ask for the first segment again
Replay ==
    /\ clock < MaxSegments
    /\ Len(getStreams(1)) = 30
    /\ HandleResponse(SegmentResponse(1))
    /\ History({}, {})
    /\ UNCHANGED <<observations, page>>
    /\ NoBadge

NextSegments == Segment \/ Replay \/ TabUpdated \/ TabRemoved

SpecSegments == Init /\ [][NextSegments]_vars

\* SpecScan: the content script scans a document of Documents
InitScan ==
    /\ streams = <<>>
    /\ notified = <<>>
    /\ clock = 0
    /\ observations = <<>>
    /\ session = [t \in TabIds |-> NewSession]
    /\ document \in Documents
    /\ videos = <<>>
    /\ display = <<>>
    /\ items = <<>>
    /\ videoInfoCache = <<>>
    /\ badge = <<>>

\* the GET_VIDEO_INFO handler of the content script
OnGetVideoInfo == videos' = DetectAll(document, clock)

Scan ==
    /\ OnGetVideoInfo
    /\ UNCHANGED <<streams, notified, clock, observations, session, document, display,
                   items, videoInfoCache, badge>>

NextScan == Scan

SpecScan == InitScan /\ [][NextScan]_vars

\* SpecPanel: the tab PanelTab shows a page of PanelDocuments; responses are
\* observed, and the side panel and the popup fetch what to show
InitPanel ==
    /\ streams = <<>>
    /\ notified = <<>>
    /\ clock = 0
    /\ observations = <<>>
    /\ session = [t \in TabIds |-> NewSession]
    /\ document \in PanelDocuments
    /\ videos = <<>>
    /\ display = <<>>
    /\ items = <<>>
    /\ videoInfoCache = <<>>
    /\ badge = <<>>

PanelResponse ==
    \E details \in PanelResponses :
        /\ clock < MaxPanelEvents
        /\ HandleResponse(details)
        /\ History({}, {})
        /\ observations' = <<details>>
        /\ UNCHANGED page
        /\ NoBadge

\* fetchVideos of the side panel
SidePanelFetch ==
    /\ OnGetVideoInfo
    /\ display' = FetchVideos(VideoInfoResponse(videos'), getStreams(PanelTab),
                              PageTitle(document))
    /\ UNCHANGED <<streams, notified, clock, observations, session, document, items,
                   videoInfoCache, badge>>

\* the fetch of the popup, and getVideoItems for the state it sets
PopupFetch ==
    /\ OnGetVideoInfo
    /\ items' = GetVideoItems(VideoInfoResponse(videos').payload, getStreams(PanelTab))
    /\ UNCHANGED <<streams, notified, clock, observations, session, document, display,
                   videoInfoCache, badge>>

NextPanel == PanelResponse \/ SidePanelFetch \/ PopupFetch

SpecPanel == InitPanel /\ [][NextPanel]_vars

\* SpecBadge: responses come, tabs navigate and are closed, content scripts report
\* a video and the user switches between the tabs
BadgeResponse ==
    \E details \in BadgeResponses :
        /\ clock < MaxBadgeEvents
        /\ HandleResponse(details)
        /\ History({}, {})
        /\ observations' = <<details>>
        /\ UNCHANGED page
        /\ NoBadge

\* the tab is open
IsOpen(tabId) == session[tabId].state \notin {"closed", "reused"}

\* the content script of an open tab reports the first video of its page
VideoDetected ==
    \E tabId \in TabIds, payload \in BadgeVideos :
        /\ IsOpen(tabId)
        /\ OnVideoDetected(tabId, payload)
        /\ session' = [session EXCEPT ![tabId].reported = TRUE]
        /\ UNCHANGED <<observations, document, videos, display, items>>

\* the user switches to an open tab
TabActivated ==
    \E tabId \in TabIds :
        /\ IsOpen(tabId)
        /\ OnTabActivated(tabId)
        /\ History({}, {})
        /\ UNCHANGED <<observations, document, videos, display, items>>

NextBadge == BadgeResponse \/ VideoDetected \/ TabActivated \/ TabUpdated \/ TabRemoved

SpecBadge == Init /\ [][NextBadge]_vars

----------------------------------------------------------------------------
(* Properties.                                                             *)

Urls(list) == [i \in 1..Len(list) |-> list[i].url]

\* the URL without its query string
RECURSIVE WithoutQuery(_)
WithoutQuery(url) ==
    IF url = <<>> \/ Head(url) = "?" THEN <<>>
    ELSE <<Head(url)>> \o WithoutQuery(Tail(url))

\* in SpecFunnel: this step observes the response Observed
Observing == clock < Len(observations) /\ clock' = clock + 1
Observed == observations[clock + 1]

HasHeader(details, header) ==
    IsDefined(details.responseHeaders) /\ header \in Range(details.responseHeaders[1])

\* the response gets through the tab, status, exclusion and classification steps
PassesFunnel(details) ==
    /\ details.tabId >= 0
    /\ ~(TruthyNumber(details.statusCode)
         /\ (details.statusCode[1] < 200 \/ details.statusCode[1] >= 400))
    /\ ~IsExcluded(details.url)
    /\ \/ IsVideoMime(ContentTypeOf(details))
       \/ IsVideoUrl(details.url)
       \/ IsMediaType(details.type) /\ LooksLikeVideo(details.url, ContentTypeOf(details))

ResolvedKind(details) == DetectStreamType(details.url, ContentTypeOf(details))

\* C1: in every state the list of every tab holds no two entries with the same url
NoDuplicateUrls ==
    \A t \in TabIds :
        \A i, j \in 1..Len(getStreams(t)) :
            i # j => getStreams(t)[i].url # getStreams(t)[j].url

\* C1 witness: tab 1 holds the two HLS URLs, and the third response, for the first
\* of them again, was not inserted
DuplicateRefused ==
    /\ clock = 3
    /\ observations = <<Details(UrlHlsV1, 1, "xmlhttprequest", Some(200), HeadersSmall)>>
    /\ Urls(getStreams(1)) = <<UrlHlsV1, UrlHlsV2>>
    /\ getStreams(1)[2].timestamp = 1
    /\ notified = <<>>

\* C2: in every state the list of every tab holds at most 30 entries
LengthWithinCapacity == \A t \in TabIds : Len(getStreams(t)) <= 30

\* C2 witness: the list is full after more than 30 insertions
FullAfterOverflow == Len(getStreams(1)) = 30 /\ session[1].inserted = 32

\* C3: a step that accepts an insertion (it sends STREAM_DETECTED for the tab) puts
\* the new entry last and keeps the entries of before in their order, all of them
\* when there were fewer than 30, all but the first one when there were 30; so the
\* 31st insertion since the last reset removes the entry inserted first.  No other
\* step removes an entry, unless it empties the list
FifoEviction ==
    [][\A t \in TabIds :
          LET old == getStreams(t)
              new == GetOrEmpty(streams', t)
              accepted == {msg.payload : msg \in {m \in Range(notified') : m.tabId = t}}
          IN  IF accepted # {}
              THEN /\ new # <<>>
                   /\ new[Len(new)] \in accepted
                   /\ new[Len(new)] \notin Range(old)
                   /\ SubSeq(new, 1, Len(new) - 1) =
                          IF Len(old) >= 30 THEN Tail(old) ELSE old
                   /\ session[t].inserted = 30 =>
                          /\ session'[t].inserted = 31
                          /\ old[1] \notin Range(new)
                          /\ Len(new) = 30
              ELSE new = old \/ new = <<>>]_vars

\* C3 witness: after the 31st insertion the list starts with the second segment
\* and ends with the 31st
FirstSegmentEvicted ==
    /\ session[1].inserted = 31
    /\ Len(getStreams(1)) = 30
    /\ getStreams(1)[1].url = SegmentUrl(2)
    /\ getStreams(1)[30].url = SegmentUrl(31)

\* C4: right after a navigation start the list of the tab is empty, and every step
\* inserts only entries of the response observed in that step; so the list holds
\* no entry of before the navigation start
NavigationStartClears ==
    [][\A t \in TabIds :
          /\ session'[t].state = "reset" => GetOrEmpty(streams', t) = <<>>
          /\ \A e \in Inserted(t) : e.timestamp = clock]_vars

\* C4 witness: after a navigation start the list holds one entry, observed after
\* it, with a URL the list held when the navigation started
RefilledAfterNavigation ==
    /\ session[1].state = "navigated"
    /\ Len(getStreams(1)) = 1
    /\ getStreams(1)[1].url \in session[1].held
    /\ getStreams(1)[1].timestamp > 0

\* C5: right after a close getStreams of the tab is empty, and the first insertion
\* after it leaves a list of that one entry, observed in that step
SessionCloseDiscards ==
    [][\A t \in TabIds :
          /\ session'[t].state = "closed" => GetOrEmpty(streams', t) = <<>>
          /\ (session[t].state = "closed" /\ Inserted(t) # {}) =>
                 /\ Len(GetOrEmpty(streams', t)) = 1
                 /\ GetOrEmpty(streams', t)[1].timestamp = clock]_vars

\* C5 witness: a closed tab is used again, and a URL its list held when it was
\* closed has been inserted again
ReusedAfterClose ==
    /\ session[1].state = "reused"
    /\ \E e \in Range(getStreams(1)) : e.url \in session[1].held

\* the URLs of the model that match an exclusion pattern: /tracking/, /\.png(?:\?|$)/
\* and /thumbnail/
ExcludedUrls == {UrlAdTracking, UrlPng, UrlThumbnail}

\* C6: a response whose URL matches an exclusion pattern changes no list and sends
\* no message, whatever its headers, resource type and status
ExclusionHasPriority ==
    [][(Observing /\ Observed.url \in ExcludedUrls) =>
          (streams' = streams /\ notified' = <<>>)]_vars

\* C6 witness: .../ad/tracking/video.mp4?x=1 came as video/mp4 of 5000 bytes, a
\* media request with status 200, and only the seed is in the list
ExcludedVideoRefused ==
    /\ clock = 2
    /\ observations[1].url = UrlMp4T1
    /\ observations[2] = Details(UrlAdTracking, 1, "media", Some(200),
                            Some(<<ContentType(<<"v","i","d","e","o","/","m","p","4">>), ContentLength(<<"5","0","0","0">>)>>))
    /\ Urls(getStreams(1)) = <<UrlMp4T1>>

\* C7: a response with content-type image/png changes no list
ImagePngRejected ==
    [][(Observing /\ HasHeader(Observed, ContentType(<<"i","m","a","g","e","/","p","n","g">>))) =>
          streams' = streams]_vars

\* C8: in every state the list of every tab holds no two entries with the same URL
\* without query string and the same type, unless the type is hls or dash
NoNearDuplicates ==
    \A t \in TabIds :
        \A i, j \in 1..Len(getStreams(t)) :
            LET a == getStreams(t)[i]
                b == getStreams(t)[j]
            IN  (i # j /\ a.type = b.type /\ a.type \notin {"hls", "dash"}) =>
                    WithoutQuery(a.url) # WithoutQuery(b.url)

\* C8 witness: tab 1 holds video.mp4?t=1 of type mp4, and the second response, for
\* video.mp4?t=2 with the same headers, was not inserted
NearDuplicateRefused ==
    /\ clock = 2
    /\ observations = <<Details(UrlMp4T2, 1, "media", Some(200), HeadersMp4Big)>>
    /\ Urls(getStreams(1)) = <<UrlMp4T1>>
    /\ getStreams(1)[1].type = "mp4"
    /\ getStreams(1)[1].timestamp = 0
    /\ session[1].state = "active"
    /\ notified = <<>>

\* C9: a response that gets through the funnel with type hls or dash, and whose URL
\* is not in the list of its tab, is appended to it, whatever the list holds
SegmentedKindsExempt ==
    [][(/\ Observing
        /\ PassesFunnel(Observed)
        /\ ResolvedKind(Observed) \in {"hls", "dash"}
        /\ \A e \in Range(getStreams(Observed.tabId)) : e.url # Observed.url) =>
          LET old == getStreams(Observed.tabId)
              new == GetOrEmpty(streams', Observed.tabId)
          IN  /\ Len(new) = Len(old) + 1
              /\ SubSeq(new, 1, Len(old)) = old
              /\ new[Len(new)].url = Observed.url
              /\ new[Len(new)].type = ResolvedKind(Observed)]_vars

\* C9 witness: a.m3u8?v=1 and a.m3u8?v=2, both hls, are both in the list
SameBaseHlsKept ==
    /\ clock = 2
    /\ Urls(getStreams(1)) = <<UrlHlsV1, UrlHlsV2>>
    /\ getStreams(1)[1].type = "hls"
    /\ getStreams(1)[2].type = "hls"

\* the content-length values of the model below 5000
SmallLengths == {ContentLength(<<"0">>), ContentLength(<<"1","2","0","0">>), ContentLength(<<"4","9","9","9">>)}

\* C10: a response that gets through the funnel with a content-length n,
\* 0 <= n < 5000, changes no list unless its type is hls or dash, and then it
\* is inserted when its URL is not yet in the list
SizeFloor ==
    [][(/\ Observing
        /\ PassesFunnel(Observed)
        /\ \E h \in SmallLengths : HasHeader(Observed, h)) =>
          IF ResolvedKind(Observed) \in {"hls", "dash"}
          THEN \/ \E e \in Range(getStreams(Observed.tabId)) : e.url = Observed.url
               \/ \E e \in Inserted(Observed.tabId) : e.url = Observed.url
          ELSE streams' = streams]_vars

\* C11: after every step the entries of every list are in the order of their
\* observation (timestamp is the tick of the response that was accepted), and the
\* entries that a step retains are in the list in the order they had before
InsertionOrder ==
    [][\A t \in TabIds :
          LET old == getStreams(t)
              new == GetOrEmpty(streams', t)
              InOld(e) == e \in Range(old)
              InNew(e) == e \in Range(new)
          IN  /\ \A i \in 1..(Len(new) - 1) : new[i].timestamp < new[i + 1].timestamp
              /\ SelectSeq(old, InNew) = SelectSeq(new, InOld)]_vars

\* C11 witness: the first segment, evicted by the 31st and then requested again, is
\* the last entry of a full list that starts with the third segment
ReplayedSegmentLast ==
    /\ Len(getStreams(1)) = 30
    /\ getStreams(1)[1].url = SegmentUrl(3)
    /\ getStreams(1)[29].url = SegmentUrl(31)
    /\ getStreams(1)[30].url = SegmentUrl(1)
    /\ getStreams(1)[30].timestamp = 31

\* C12: a step sends at most one message; a step that inserts an entry sends
\* STREAM_DETECTED with the tab id and that entry; every message sent is for the
\* response observed in the step, whose entry the step has put last in the list of
\* its tab; and a step that only drops an undelivered message changes no list
NotifyPerInsertion ==
    [][/\ Len(notified') <= 1
       /\ \A t \in TabIds :
              Inserted(t) # {} =>
                  \E msg \in Range(notified') :
                      msg.tabId = t /\ Inserted(t) = {msg.payload}
       /\ \A msg \in Range(notified') :
              LET old == getStreams(msg.tabId)
                  new == GetOrEmpty(streams', msg.tabId)
              IN  /\ msg.type = "STREAM_DETECTED"
                  /\ msg.tabId \in TabIds
                  /\ new # <<>>
                  /\ new[Len(new)] = msg.payload
                  /\ msg.payload \notin Range(old)
                  /\ observations'[1].url = msg.payload.url
                  /\ observations'[1].tabId = msg.tabId
                  /\ msg.payload.timestamp = clock
       /\ (notified # <<>> /\ notified' = <<>> /\ clock' = clock
              /\ session' = session) => streams' = streams]_vars

\* C12 witness: the second response was inserted and notified after the first
\* one was, and the third, a near-duplicate, was rejected without a message
SilentRejection ==
    /\ clock = 3
    /\ observations = <<Details(UrlMp4T2, 1, "media", Some(200), HeadersMp4Big)>>
    /\ Urls(getStreams(1)) = <<UrlMp4T1, UrlHlsV1>>
    /\ getStreams(1)[2].timestamp = 1
    /\ notified = <<>>

\* the quality of the entries of tab 1 with the URL url
QualitiesOf(url) == {e.quality : e \in {x \in Range(getStreams(1)) : x.url = url}}

FailedStatusRejected ==
    [][(/\ Observing
        /\ IsDefined(Observed.statusCode)
        /\ (Observed.statusCode[1] < 200 \/ Observed.statusCode[1] >= 400)) =>
          (streams' = streams /\ notified' = <<>>)]_vars

\* C18: a response with a negative tab id changes no list, creates none and sends
\* no message
InvalidTabDropped ==
    [][(Observing /\ Observed.tabId < 0) =>
          (streams' = streams /\ notified' = <<>>)]_vars

\* C18 witness: video.mp4?t=2 came for the tab id -1 as video/mp4 of 5000 bytes, a
\* media request with status 200, and the map holds the list of tab 1 only
NoListForInvalidTab ==
    /\ clock = 2
    /\ observations[1].url = UrlHlsV1
    /\ observations[2] = Details(UrlMp4T2, -1, "media", Some(200),
                                 Some(<<ContentType(<<"v","i","d","e","o","/","m","p","4">>),
                                        ContentLength(<<"5","0","0","0">>)>>))
    /\ DOMAIN streams = {1}
    /\ Urls(getStreams(1)) = <<UrlHlsV1>>

\* the kind that the extension of a URL of the model names, and the kind that a
\* content type of the model names
ExtensionKind ==
    [u \in {UrlMp4T1, UrlMp4T2, UrlHlsV2, UrlMpd} |->
        IF u = UrlHlsV2 THEN "hls" ELSE IF u = UrlMpd THEN "dash" ELSE "mp4"]
MimeKind ==
    [h \in {ContentType(<<"v","i","d","e","o","/","m","p","4">>), ContentType(<<"A","p","p","l","i","c","a","t","i","o","n","/","v","n","d",".","a","p","p","l","e",".","m","p","e","g","U","R","L">>)} |->
        IF h = ContentType(<<"v","i","d","e","o","/","m","p","4">>) THEN "mp4" ELSE "hls"]

\* C19: the entry inserted for a URL with a recognised extension, served with a
\* content type that names another kind, has the kind of the extension
UrlKindWins ==
    [][Observing =>
          \A u \in DOMAIN ExtensionKind, h \in DOMAIN MimeKind :
              (/\ Observed.url = u
               /\ HasHeader(Observed, h)
               /\ MimeKind[h] # ExtensionKind[u]) =>
                  \A e \in Inserted(Observed.tabId) : e.type = ExtensionKind[u]]_vars

\* C20: the entry inserted for a URL with the extension .ts has the kind hls,
\* whatever the content type
SegmentIsHls ==
    [][(Observing /\ Observed.url \in {UrlSeg1, UrlSeg2}) =>
          \A e \in Inserted(Observed.tabId) : e.type = "hls"]_vars

\* the VideoInfo lists the URL among its streams, with the kind
ListsStream(video, url, kind) ==
    /\ IsDefined(video.streams)
    /\ \E k \in 1..Len(video.streams[1]) :
           video.streams[1][k].url = url /\ video.streams[1][k].type = kind

\* the only video element of the document is <video src="a.mp4"> with one nested
\* <source src="b.webm">, and its area is at or above the threshold
OneVideoAB ==
    /\ Len(document.videos) = 1
    /\ document.videos[1].src = UrlA
    /\ Len(document.videos[1].sources) = 1
    /\ document.videos[1].sources[1].src = UrlB
    /\ document.videos[1].area >= 10000

\* the document has nothing but video elements, and its URL is of no platform
PlainPage ==
    document.href = HrefPage /\ document.iframes = <<>> /\ document.sources = <<>>

\* C14: scanning a document whose only video element is <video src="a.mp4"> with a
\* nested <source src="b.webm">, of an area at or above the threshold, returns
\* exactly one VideoInfo with both URLs among its streams, a.mp4 as mp4 and b.webm
\* as webm; it is all that is returned when the document has nothing else
NestedStreamsListed ==
    [][(OneVideoAB /\ videos' # videos) =>
          /\ Cardinality({i \in 1..Len(videos') :
                             /\ ListsStream(videos'[i], UrlA, "mp4")
                             /\ ListsStream(videos'[i], UrlB, "webm")}) = 1
          /\ PlainPage => Len(videos') = 1]_vars

\* C14 witness: the scan of a page with that video element and nothing else
\* returned one VideoInfo, whose streams are a.mp4 (mp4) and b.webm (webm)
VideoWithNestedSource ==
    /\ OneVideoAB
    /\ PlainPage
    /\ Len(videos) = 1
    /\ ListsStream(videos[1], UrlA, "mp4")
    /\ ListsStream(videos[1], UrlB, "webm")
    /\ Len(videos[1].streams[1]) = 2

\* the key of a VideoInfo: its platform id if it has one, else its direct source
\* URL if it has one, else its page URL
KeyOf(video) ==
    IF IsDefined(video.videoId) /\ video.videoId[1] # <<>> THEN video.videoId[1]
    ELSE IF IsDefined(video.sourceUrl) /\ video.sourceUrl[1] # <<>>
    THEN video.sourceUrl[1]
    ELSE video.url

\* what the strategies find in the document, in the order platform, video
\* elements, iframes, orphan source elements
StrategyResults ==
    (DetectYouTube(document) \o DetectVimeo(document))
        \o DetectAllHTML5Videos(document, clock)
        \o DetectIframeVideos(document)
        \o DetectSourceTags(document, clock)

\* the i-th of the list is the first with its key
FirstWithKey(list, i) == \A j \in 1..(i - 1) : KeyOf(list[j]) # KeyOf(list[i])

\* C15: a scan returns what the strategies find, in the order platform, video
\* elements, iframes, orphan sources, without the entries whose key an earlier
\* entry has; no two returned entries have the same key
FirstPerKeyInScanOrder ==
    [][videos' # videos =>
          LET all == StrategyResults
              first == Ascending({i \in 1..Len(all) : FirstWithKey(all, i)})
          IN  /\ videos' = [k \in 1..Len(first) |-> all[first[k]]]
              /\ \A i, j \in 1..Len(videos') :
                     i # j => KeyOf(videos'[i]) # KeyOf(videos'[j])]_vars

\* C15 witness: on the YouTube page of the video abc, with a video element played
\* from a blob and an iframe that embeds abc, the scan returned the platform
\* entry and the video element, and not the iframe
EmbeddedCopyDropped ==
    /\ document = Document(HrefWatch, <<VideoBlob>>,
                           <<Iframe(<<"y","o","u","t","u","b","e",".","c","o","m","/","e","m","b","e","d","/","a","b","c","?","r","e","l","=","0">>)>>, <<>>)
    /\ Len(videos) = 2
    /\ videos[1].platform = "youtube" /\ videos[1].url = HrefWatch
    /\ videos[2].platform = "html5"
    /\ Len(StrategyResults) = 3

\* C16: neither list has a stream entry whose URL is the page URL or the direct
\* source URL of a DOM entry of the same list
DisplayDeduplicated ==
    /\ \A i, j \in 1..Len(display) :
           (display[i].platform # "stream" /\ display[j].platform = "stream") =>
               /\ display[j].url # display[i].url
               /\ Some(display[j].url) # display[i].sourceUrl
    /\ \A i, j \in 1..Len(items) :
           (items[i].type = "video" /\ items[j].type = "stream") =>
               /\ items[j].url # items[i].url
               /\ Some(items[j].url) # items[i].sourceUrl

\* the labels of the matches of a rule in the URL: of the leftmost match of each of
\* the patterns of the rule
RuleLabels(matches) ==
    {QualityOfMatch(matches[k][1]) : k \in {k \in 1..Len(matches) : IsDefined(matches[k])}}

\* the rules in the order NNNp token, WxH token, quality= or res= parameter,
\* textual token, itag= parameter, each with the labels it gives for the URL
RulesAsStated(url) ==
    <<RuleLabels(<<FirstMatch([i \in 1..Len(url) |-> MatchDigitsP(url, i)])>>),
      RuleLabels(<<FirstMatch([i \in 1..Len(url) |-> MatchWidthXHeight(url, i)])>>),
      RuleLabels(<<FirstMatch([i \in 1..Len(url) |-> MatchQualityParam(url, i)]),
                   FirstMatch([i \in 1..Len(url) |-> MatchRes(url, i)])>>),
      RuleLabels(<<FirstMatch([i \in 1..Len(url) |-> MatchQualityWord(url, i)])>>),
      RuleLabels(<<FirstMatch([i \in 1..Len(url) |-> MatchItag(url, i)])>>)>>

\* the labels that the earliest of the rules that matches gives; none when no rule
\* matches
LabelsAsStated(url) ==
    LET rules == RulesAsStated(url)
        K == {k \in 1..Len(rules) : rules[k] # {}}
    IN  IF K = {} THEN {Undefined}
        ELSE {Some(l) : l \in rules[CHOOSE k \in K : \A m \in K : k <= m]}

\* C21: the quality of an entry is the label of the earliest rule that matches its
\* URL, in the order NNNp token, WxH token, quality= or res= parameter, textual
\* token, itag= parameter: res= wins over itag=
QualityRuleOrder ==
    \A e \in Range(getStreams(1)) : e.quality \in LabelsAsStated(e.url)

\* the URL contains a media keyword
HasMediaKeyword(url) ==
    \E kw \in {<<"v","i","d","e","o">>, <<"m","e","d","i","a">>, <<"s","t","r","e","a","m">>, <<"p","l","a","y">>, <<"w","a","t","c","h">>, <<"c","l","i","p">>,
               <<"m","o","v","i","e">>} : Includes(ToLowerCase(url), kw)

\* the response is not excluded, its content type is not on the MIME list and its
\* URL matches no pattern of the URL list
OffBothLists(details) ==
    /\ ~IsExcluded(details.url)
    /\ ~IsVideoMime(ContentTypeOf(details))
    /\ ~IsVideoUrl(details.url)

\* C22: a response that is not excluded and is on neither list is inserted only if
\* its resource type is media, xmlhttprequest or other and its URL contains a
\* media keyword; with any other resource type it changes no list and sends no
\* message
KeywordNeedsMediaKind ==
    [][(Observing /\ OffBothLists(Observed)) =>
          /\ (Inserted(Observed.tabId) # {} \/ notified' # <<>>) =>
                 /\ Observed.type \in {"media", "xmlhttprequest", "other"}
                 /\ HasMediaKeyword(Observed.url)
          /\ Observed.type \notin {"media", "xmlhttprequest", "other"} =>
                 (streams' = streams /\ notified' = <<>>)]_vars

\* C22 witness: after a.m3u8, h.io/watch?v=9 came without a content type as a
\* request of the type other, and it was inserted and announced
KeywordOfOtherKindAccepted ==
    /\ clock = 2
    /\ observations[1].url = UrlHlsV1
    /\ observations[2] = Details(UrlWatch, 1, "other", Some(200), HeadersNone)
    /\ Urls(getStreams(1)) = <<UrlHlsV1, UrlWatch>>
    /\ notified # <<>>

\* C23: every stream that a scan lists has the kind that detectStreamType gives
\* its URL when there is no content type
ScannerUsesRuleset ==
    \A i \in 1..Len(videos) :
        IsDefined(videos[i].streams) =>
            \A k \in 1..Len(videos[i].streams[1]) :
                videos[i].streams[1][k].type =
                    DetectStreamType(videos[i].streams[1][k].url, <<>>)

\* the defined ones of a set of optional strings
Defined(options) == {o[1] : o \in {x \in options : IsDefined(x)}}

\* the titles that the document holds: its own title (also without the suffix of
\* YouTube), the text of the platform title element and of the first h1, and the
\* title, aria-label and heading of its video elements and the title of its iframes
TitlesOfDocument ==
    {document.title, ReplaceFirst(document.title, <<" ","-"," ","Y","o","u","T","u","b","e">>, <<>>)}
        \cup Defined({document.platformTitle, document.h1})
        \cup {v.title : v \in Range(document.videos)}
        \cup Defined({v.ariaLabel : v \in Range(document.videos)})
        \cup {Trim(h) : h \in Defined({v.heading : v \in Range(document.videos)})}
        \cup {f.title : f \in Range(document.iframes)}

\* C24: the title of every VideoInfo that a scan returns is a title that the
\* document holds, or is empty; it is never a default string
NoPlaceholderTitle ==
    \A i \in 1..Len(videos) :
        videos[i].title = <<>> \/ videos[i].title \in TitlesOfDocument

\* a blob: URL
IsBlob(url) == Len(url) >= 5 /\ SubSeq(url, 1, 5) = <<"b","l","o","b",":">>

\* the URL that the video element plays: its src, else its currentSrc, else the
\* src of its first source element
ResolvedUrl(video) ==
    IF video.src # <<>> THEN video.src
    ELSE IF video.currentSrc # <<>> THEN video.currentSrc
    ELSE IF video.sources # <<>> THEN video.sources[1].src
    ELSE <<>>

\* the only video element of the document plays a blob
OneBlobVideo ==
    /\ Len(document.videos) = 1
    /\ IsBlob(ResolvedUrl(document.videos[1]))
    /\ document.videos[1].area >= 10000

\* the entries that a scan returned for the page itself without a source URL
PageEntriesWithoutSource ==
    {i \in 1..Len(videos) :
        /\ videos[i].platform = "html5"
        /\ videos[i].url = document.href
        /\ videos[i].sourceUrl = Undefined}

EventOf(t) ==
    \/ clock' = clock + 1 /\ observations' # <<>> /\ observations'[1].tabId = t
    \/ /\ clock' = clock
       /\ session'[t].state \in {"reset", "closed"}
       /\ session'[t].inserted = 0
       /\ session'[t].held = {e.url : e \in Range(getStreams(t))}

\* C26: a step that changes the list of a tab, or creates or removes it, is an
\* event of that tab: a response, a navigation start or a close of one tab leaves
\* the list of every other tab as it is
SessionsIndependent ==
    [][\A t \in TabIds :
           (\/ GetOrEmpty(streams', t) # GetOrEmpty(streams, t)
            \/ (t \in DOMAIN streams') # (t \in DOMAIN streams)) => EventOf(t)]_vars

\* C26 witness: tab 1 was closed while it held entries, and tab 2 has its entry
OtherTabKept ==
    /\ session[1].state = "closed"
    /\ session[1].held # {}
    /\ 1 \notin DOMAIN streams
    /\ Len(getStreams(2)) >= 1
    /\ session[2].state = "active"

\* C27: a badge count that is above the number of entries of the list of the tab
\* counts a video that the tab reported since its last navigation start or close
BadgeCountsCurrentVideo ==
    badge # <<>> =>
        (badge[1].count > Len(getStreams(badge[1].tabId)) =>
            session[badge[1].tabId].reported)

====
